---- MODULE Spec2Model ----
(***************************************************************************)
(* Orchestration layer of the test-automation server:                      *)
(*   - RunQueueManager (src/server/src/queue_manager.py): admission         *)
(*     control over pipeline instances;                                     *)
(*   - LangGraphPipeline.run and the execute/heal cycle of the workflows    *)
(*     (src/server/src/pipeline_langgraph.py, workflows/ai_workflow.py);    *)
(*   - auto_heal_and_rerun (src/server/src/tools/auto_healer.py).           *)
(*                                                                         *)
(* The specifications share the variables:                                  *)
(*   Spec        the queue manager, the pipeline seen through the run row   *)
(*   SpecRun     one run in detail: the workflow graph or the healing loop  *)
(*   SpecRunFair SpecRun under weak fairness (every call returns)           *)
(*   SpecPred    the completion predicate should_heal on arbitrary contexts *)
(*   SpecSelect  select_best_suggestion on arbitrary suggestion lists       *)
(*   SpecSlots   the queue manager with the exception path of _execute_run  *)
(***************************************************************************)
(* Modelling notes.                                                        *)
(*  - asyncio is cooperative: code between two awaits is one step.  A put   *)
(*    on the unbounded queue, a get on a non-empty queue and an acquire of  *)
(*    a free semaphore do not suspend; sleep, the workflow invocation and   *)
(*    the progress broadcast do.                                            *)
(*  - The queue manager (TestRun) and the state updater (Run) both look the *)
(*    run up by its run id; the model keeps one status per run id, written  *)
(*    by both.  Rows exist before enqueue_run with the column default.      *)
(*  - In SpecRun each write of the state sink succeeds or raises; the       *)
(*    write of a stage and run()'s write of the failed state that follows   *)
(*    a raising stage are drawn separately.                                 *)
(*  - enqueue_run and cancel_run hand their return value to the caller and  *)
(*    keep nothing of it: EnqueueReturn and CancelReturn compute it from    *)
(*    the state the call sees.                                              *)
(*  - The generated tests directory is reduced to the one test file a       *)
(*    patch targets and its .bak; shutil calls that the code wraps in       *)
(*    try/except may fail.                                                  *)
(*  - Confidences are hundredths (0.85 is 85); float() of a number keeps   *)
(*    its value.                                                            *)
(*  - The three workflows share execution_node, healing_node and            *)
(*    should_heal; SpecRun follows the graph of the ai workflow.            *)
(***************************************************************************)
EXTENDS Integers, Sequences, FiniteSets, TLC

\* ------------------------------------------------------------------ bounds
MaxRuns == 2          \* run ids that callers enqueue
MaxHeal == 2          \* largest max_heal_attempts a caller passes
MaxTests == 1         \* largest number of tests in an execution report
MaxSuggestions == 3   \* longest list handed to select_best_suggestion

\* -------------------------------------------------------- program constants
MAX_CONCURRENT_RUNS == 2      \* config.MAX_CONCURRENT_RUNS default
AVERAGE_RUN_SECONDS == 120    \* seconds per queued run in enqueue_run's estimate
DEFAULT_CONFIDENCE == 50      \* s.get("confidence", 0.5), in hundredths

RunIds == 1..MaxRuns

\* ---------------------------------------------------------------- variables
VARIABLES
    \* RunQueueManager
    max_concurrent,   \* self.max_concurrent
    semaphore,        \* free permits of self.semaphore
    queue,            \* self.queue (asyncio.Queue), head first
    active_runs,      \* keys of self.active_runs
    is_processing,    \* self.is_processing
    pq_pending,       \* process_queue tasks created and not yet started
    dispatcher,       \* position of the process_queue task that owns the loop
    task,             \* per run: position of its enqueue/_execute_run life
    row,              \* per run: status column of the run's database row
    wf_status,        \* per run: 'status' of the pipeline's state dict
    result,           \* per run: status of the dict pipeline.run returned
    in_loop,          \* process_queue instances inside the try block
    \* observation logs
    enq_log,          \* run ids in the order enqueue_run completed
    start_log,        \* run ids in the order the dispatcher started them
    cancelled_queued, \* runs cancelled while still in the pending queue
    \* one run in detail
    driver,           \* "graph": LangGraphPipeline.run, "healer": auto_heal_and_rerun,
                      \* "sync": run_pipeline_sync
    node,             \* next node of the workflow graph / position in run()
    state,            \* the TestRunState dict threaded through the graph
    initial_state,    \* the dict run() built before invoking the workflow
    run_row,          \* status column of this run's database row
    executions,       \* number of visits of the execute node
    heals,            \* number of visits of the heal node
    report_log,       \* summaries of the executions, in order
    fix_log,          \* number of fixes each heal visit wrote, in order
    hl,               \* locals and return value of auto_heal_and_rerun
    gen_dir,          \* the generated tests directory: the patched test file and its .bak
    last_patch,       \* content kind of the patch the last healing attempt applied
    backup_dir,       \* the backup copy of the last healing attempt: none, taken, failed
    \* should_heal in isolation
    sh_in,            \* the context handed to should_heal
    sh_out,           \* the branch it returned
    \* select_best_suggestion in isolation
    suggestions,      \* the list handed to select_best_suggestion
    best_suggestion   \* what it returned, as a list of at most one element

qvars == <<max_concurrent, semaphore, queue, active_runs, is_processing,
           pq_pending, dispatcher, task, row, wf_status, result,
           in_loop, enq_log, start_log, cancelled_queued>>
rvars == <<driver, node, state, initial_state, run_row, executions, heals,
           report_log, fix_log, hl, gen_dir, last_patch, backup_dir>>
pvars == <<sh_in, sh_out, suggestions, best_suggestion>>
vars == <<qvars, rvars, pvars>>

Terminal == {"completed", "failed", "cancelled"}

\* ====================================================================
\*  RunQueueManager
\* ====================================================================

\* asyncio.Queue.put on an unbounded queue
QueuePut(q, r) == Append(q, r)

\* A get that hands out the oldest entry and leaves it in the queue
QueuePeek(q) == <<Head(q), q>>

\* A get that hands out the newest entry instead of the oldest
QueueGetLast(q) == <<q[Len(q)], SubSeq(q, 1, Len(q) - 1)>>

\* asyncio.Queue.get on a non-empty queue: <<entry, remaining queue>>
QueueGet(q) == <<Head(q), Tail(q)>>

InQueue(r) == \E i \in 1..Len(queue) : queue[i] = r

\* A run id no row carries
NoSuchRun == 0

\* An estimate that charges the first position too
EstimatedWaitFromOne(position) == position * AVERAGE_RUN_SECONDS

\* enqueue_run: estimated_wait_seconds
EstimatedWait(position) ==
    IF position > 1 THEN (position - 1) * AVERAGE_RUN_SECONDS ELSE 0

\* enqueue_run: the dict it returns, from the queue after the put and the
\* active runs
EnqueueReturn(q, active) ==
    [queued |-> TRUE, position |-> Len(q), queue_size |-> Len(q),
     estimated_wait_seconds |-> EstimatedWait(Len(q)),
     active_runs |-> Cardinality(active)]

QInit ==
    /\ max_concurrent \in 1..MAX_CONCURRENT_RUNS
    /\ semaphore = max_concurrent
    /\ queue = <<>>
    /\ active_runs = {}
    /\ is_processing = FALSE
    /\ pq_pending = 0
    /\ dispatcher = "idle"
    /\ task = [r \in RunIds |-> "new"]
    /\ row = [r \in RunIds |-> "queued"]
    /\ wf_status = [r \in RunIds |-> "none"]
    /\ result = [r \in RunIds |-> "none"]
    /\ in_loop = 0
    /\ enq_log = <<>>
    /\ start_log = <<>>
    /\ cancelled_queued = {}

\* enqueue_run: put, mark the row queued, start the dispatcher if idle.
\* Nothing in it suspends (the queue is unbounded), so it is one step.
enqueue_run(r) ==
    /\ task[r] = "new"
    /\ queue' = QueuePut(queue, r)
    /\ row' = [row EXCEPT ![r] = "queued"]
    /\ pq_pending' = IF ~is_processing THEN pq_pending + 1 ELSE pq_pending
    /\ task' = [task EXCEPT ![r] = "queued"]
    /\ enq_log' = Append(enq_log, r)
    /\ UNCHANGED <<max_concurrent, semaphore, active_runs, is_processing,
                   dispatcher, wf_status, result, start_log, cancelled_queued>>
    /\ UNCHANGED in_loop
    /\ UNCHANGED <<rvars, pvars>>

\* A loop that leaves on an empty queue without resetting is_processing
LoopIterationKeepingFlag(free, pending, inside) ==
    /\ free > 0
    /\ IF queue = <<>>
       THEN /\ semaphore' = free
            /\ is_processing' = is_processing
            /\ in_loop' = inside - 1
            /\ dispatcher' = IF inside > 1 THEN "sleeping" ELSE "idle"
            /\ pq_pending' = IF queue # <<>> THEN pending + 1 ELSE pending
            /\ UNCHANGED <<queue, row, active_runs, task, start_log>>
       ELSE LET got == QueueGet(queue)
                r == got[1]
            IN  /\ queue' = got[2]
                /\ row' = [row EXCEPT ![r] = "running"]
                /\ active_runs' = active_runs \cup {r}
                /\ task' = [task EXCEPT ![r] = "created"]
                /\ start_log' = Append(start_log, r)
                /\ semaphore' = free - 1
                /\ is_processing' = TRUE
                /\ in_loop' = inside
                /\ dispatcher' = "sleeping"
                /\ pq_pending' = pending

\* One pass of the dispatch loop body, from "async with self.semaphore" to
\* "await asyncio.sleep(1)" or to the break and the finally block.
\* free: permits free at the top of the loop; pending: tasks left pending.
\* inside: instances inside the try block, this one included.
LoopIteration(free, pending, inside) ==
    /\ free > 0
    /\ IF queue = <<>>
       THEN /\ semaphore' = free
            /\ is_processing' = FALSE
            /\ in_loop' = inside - 1
            /\ dispatcher' = IF inside > 1 THEN "sleeping" ELSE "idle"
            /\ pq_pending' = IF queue # <<>> THEN pending + 1 ELSE pending
            /\ UNCHANGED <<queue, row, active_runs, task, start_log>>
       ELSE LET got == QueueGet(queue)
                r == got[1]
            IN  /\ queue' = got[2]
                /\ row' = [row EXCEPT ![r] = "running"]
                /\ active_runs' = active_runs \cup {r}
                /\ task' = [task EXCEPT ![r] = "created"]
                /\ start_log' = Append(start_log, r)
                /\ semaphore' = free - 1
                /\ is_processing' = TRUE
                /\ in_loop' = inside
                /\ dispatcher' = "sleeping"
                /\ pq_pending' = pending

\* process_queue's guard with the flag ignored: every started task enters
\* the loop
AlreadyProcessingIgnored(flag) == FALSE

\* process_queue's first statement: return when a dispatcher is running
AlreadyProcessing(flag) == flag

\* A created process_queue task starts: it returns at once when a dispatcher
\* is already running, otherwise it becomes the dispatcher.
process_queue ==
    /\ pq_pending > 0
    /\ IF AlreadyProcessing(is_processing)
       THEN /\ pq_pending' = pq_pending - 1
            /\ UNCHANGED <<semaphore, queue, active_runs, is_processing,
                           in_loop, dispatcher, task, row, start_log>>
       ELSE LoopIteration(semaphore, pq_pending - 1, in_loop + 1)
    /\ UNCHANGED <<max_concurrent, wf_status, result, enq_log, cancelled_queued>>
    /\ UNCHANGED <<rvars, pvars>>

\* The dispatcher resumes after sleep(1): leaving the "async with" block
\* releases the permit, then the loop goes round again.
process_queue_resume ==
    /\ dispatcher = "sleeping"
    /\ LoopIteration(semaphore + 1, pq_pending, in_loop)
    /\ UNCHANGED <<max_concurrent, wf_status, result, enq_log, cancelled_queued>>
    /\ UNCHANGED <<rvars, pvars>>

\* _update_progress: the row takes the status of the progress record
update_progress(rw, r, st) == [rw EXCEPT ![r] = st]

\* StateUpdater.update_from_state: the row takes the 'status' of the dict
update_from_state(rw, r, st) == [rw EXCEPT ![r] = st]

\* _execute_run, first part: the "starting" progress update
execute_run_start(r) ==
    /\ task[r] = "created"
    /\ row' = update_progress(row, r, "running")
    /\ task' = [task EXCEPT ![r] = "starting"]
    /\ UNCHANGED <<max_concurrent, semaphore, queue, active_runs, is_processing,
                   pq_pending, dispatcher, wf_status, result, enq_log,
                   start_log, cancelled_queued>>
    /\ UNCHANGED in_loop
    /\ UNCHANGED <<rvars, pvars>>

\* LangGraphPipeline.run up to the workflow invocation: the initial state
\* has status running and is written to the row.
pipeline_begin(r) ==
    /\ task[r] = "starting"
    /\ wf_status' = [wf_status EXCEPT ![r] = "running"]
    /\ row' = update_from_state(row, r, "running")
    /\ task' = [task EXCEPT ![r] = "workflow"]
    /\ UNCHANGED <<max_concurrent, semaphore, queue, active_runs, is_processing,
                   pq_pending, dispatcher, result, enq_log, start_log,
                   cancelled_queued>>
    /\ UNCHANGED in_loop
    /\ UNCHANGED <<rvars, pvars>>

\* A stage of the workflow persists its state dict. failed: the stage took
\* its failure path (discovery_node's except branch sets status failed).
workflow_stage(r, failed) ==
    /\ task[r] = "workflow"
    /\ LET st == IF failed THEN "failed" ELSE wf_status[r]
       IN  /\ wf_status' = [wf_status EXCEPT ![r] = st]
           /\ row' = update_from_state(row, r, st)
    /\ UNCHANGED <<max_concurrent, semaphore, queue, active_runs, is_processing,
                   pq_pending, dispatcher, task, result, enq_log, start_log,
                   cancelled_queued>>
    /\ UNCHANGED in_loop
    /\ UNCHANGED <<rvars, pvars>>

\* Status of the dict LangGraphPipeline.run returns: completed when the
\* workflow returned, failed when it raised.
FinalStatus(raised) == IF raised THEN "failed" ELSE "completed"

\* The progress record _execute_run sends for a pipeline result; results
\* other than completed/failed send nothing and leave the row alone.
ReportStatus(res, current) ==
    IF res = "completed" THEN "completed"
    ELSE IF res = "failed" THEN "failed"
    ELSE current

\* The workflow ends: run() writes the final state and returns, and
\* _execute_run sends the matching progress update.
pipeline_return(r, raised) ==
    /\ task[r] = "workflow"
    /\ LET res == FinalStatus(raised)
           row1 == update_from_state(row, r, res)
       IN  /\ wf_status' = [wf_status EXCEPT ![r] = res]
           /\ result' = [result EXCEPT ![r] = res]
           /\ row' = update_progress(row1, r, ReportStatus(res, row1[r]))
    /\ task' = [task EXCEPT ![r] = "reporting"]
    /\ UNCHANGED <<max_concurrent, semaphore, queue, active_runs, is_processing,
                   pq_pending, dispatcher, enq_log, start_log, cancelled_queued>>
    /\ UNCHANGED in_loop
    /\ UNCHANGED <<rvars, pvars>>

\* The try block of _execute_run leaves by exception (the first progress
\* update, or run() on a failing write of the state sink or an unknown
\* mode): the except branch marks the row failed.
\* sink: outcome of that write; when it raises too, the exception leaves
\* the task after the finally block.
pipeline_raise(r, sink) ==
    /\ task[r] \in {"created", "starting", "workflow"}
    /\ result' = [result EXCEPT ![r] = "raised"]
    /\ row' = IF sink = "ok" THEN update_progress(row, r, "failed") ELSE row
    /\ task' = [task EXCEPT ![r] = "reporting"]
    /\ UNCHANGED <<max_concurrent, semaphore, queue, active_runs, is_processing,
                   pq_pending, dispatcher, wf_status, enq_log, start_log,
                   cancelled_queued>>
    /\ UNCHANGED in_loop
    /\ UNCHANGED <<rvars, pvars>>

\* A finally block that forgets the run
ActivePopNothing(active, r) == active

\* self.active_runs.pop(run_id, None)
ActivePop(active, r) == active \ {r}

\* _execute_run, finally block
execute_run_finally(r) ==
    /\ task[r] = "reporting"
    /\ active_runs' = ActivePop(active_runs, r)
    /\ task' = [task EXCEPT ![r] = "done"]
    /\ UNCHANGED <<max_concurrent, semaphore, queue, is_processing, pq_pending,
                   dispatcher, row, wf_status, result, enq_log, start_log,
                   cancelled_queued>>
    /\ UNCHANGED in_loop
    /\ UNCHANGED <<rvars, pvars>>

\* get_status: the dict it returns
GetStatus(mc, active, q, flag) ==
    [max_concurrent |-> mc, active_runs |-> Cardinality(active),
     queued_runs |-> Len(q), is_processing |-> flag, active_run_ids |-> active]

\* A status query that empties the pending queue while counting it
get_status_draining ==
    /\ queue' = <<>>
    /\ UNCHANGED <<max_concurrent, semaphore, active_runs, is_processing,
                   pq_pending, dispatcher, task, row, wf_status, result,
                   enq_log, start_log, cancelled_queued>>
    /\ UNCHANGED in_loop
    /\ UNCHANGED <<rvars, pvars>>

\* get_status: builds the dict and assigns nothing
get_status ==
    /\ UNCHANGED <<max_concurrent, semaphore, queue, active_runs, is_processing,
                   pq_pending, dispatcher, task, row, wf_status, result,
                   enq_log, start_log, cancelled_queued>>
    /\ UNCHANGED in_loop
    /\ UNCHANGED <<rvars, pvars>>

\* cancel_run marking the row cancelled whatever its status
CancelStatusAny(st) == "cancelled"

\* Status cancel_run leaves in the row
CancelStatus(st) == IF st \in {"queued", "running"} THEN "cancelled" ELSE st

\* The query of cancel_run found a row
RowExists(r) == r \in DOMAIN row

\* cancel_run: the bool it returns, from the row it found
CancelReturn(r) ==
    IF RowExists(r) THEN row[r] \in {"queued", "running"} ELSE FALSE

\* cancel_run for an enqueued run, or for an id without a row
cancel_run(r) ==
    /\ IF RowExists(r) THEN task[r] # "new" ELSE TRUE
    /\ row' = IF RowExists(r)
              THEN [row EXCEPT ![r] = CancelStatus(row[r])]
              ELSE row
    /\ UNCHANGED in_loop
    /\ cancelled_queued' = IF InQueue(r) /\ row[r] \in {"queued", "running"}
                           THEN cancelled_queued \cup {r}
                           ELSE cancelled_queued
    /\ UNCHANGED <<max_concurrent, semaphore, queue, active_runs, is_processing,
                   pq_pending, dispatcher, task, wf_status, result, enq_log,
                   start_log>>
    /\ UNCHANGED <<rvars, pvars>>

QNext ==
    \/ \E r \in RunIds : enqueue_run(r)
    \/ process_queue
    \/ process_queue_resume
    \/ \E r \in RunIds : execute_run_start(r)
    \/ \E r \in RunIds : pipeline_begin(r)
    \/ \E r \in RunIds, f \in BOOLEAN : workflow_stage(r, f)
    \/ \E r \in RunIds, x \in BOOLEAN : pipeline_return(r, x)
    \/ \E r \in RunIds : execute_run_finally(r)
    \/ \E r \in RunIds \cup {NoSuchRun} : cancel_run(r)

\* ====================================================================
\*  One run in detail: LangGraphPipeline.run and the workflow graph
\* ====================================================================

SinkOutcomes == {"ok", "raise"}     \* the database commit succeeds or raises

HEAL_SAMPLE == 3                    \* failed_tests[:3] in healing_node

\* execution_result before any execution: state.get('execution_result', {})
NoResult == [ok |-> FALSE, passed |-> 0, failed |-> 0]

\* Results run_playwright_tests can return: not ok with an all-zero summary,
\* or ok with the counts of the report (the report lists one record with
\* outcome failed per counted failure).
RunnerResults ==
    {NoResult} \cup
    {[ok |-> TRUE, passed |-> c[1], failed |-> c[2]] :
        c \in {x \in (0..MaxTests) \X (0..MaxTests) : x[1] + x[2] <= MaxTests}}

\* config['testCreationMode']: the ai workflow, or a value run() does not
\* know (the record and hybrid graphs share the execute/heal cycle and are
\* not drawn)
Modes == {"ai", "unknown"}

\* The run request before run() is called
Config(ah, mx) ==
    [run_id |-> 1, url |-> "url", execution_mode |-> "headless",
     preset |-> "balanced",
     auto_heal |-> ah, max_heal_attempts |-> mx, test_creation_mode |-> "ai",
     status |-> "queued",
     error_message |-> "none", final_story |-> FALSE, scenarios |-> FALSE,
     tests_directory |-> FALSE, execution_result |-> NoResult,
     tests_passed |-> 0, tests_failed |-> 0,
     healing_attempts |-> 0, is_healed |-> FALSE, completed_at |-> FALSE]

\* run(): initial_state
InitialState(cfg) ==
    [cfg EXCEPT !.status = "running", !.healing_attempts = 0,
                !.is_healed = FALSE]

\* run(): failed_state of the except branch
FailedState(ini) ==
    [ini EXCEPT !.status = "failed", !.error_message = "exception",
                !.completed_at = TRUE]

\* should_heal with the budget test off by one
should_heal_off_by_one(st) ==
    IF ~st.auto_heal \/ st.tests_failed = 0
       \/ st.healing_attempts > st.max_heal_attempts
    THEN "complete"
    ELSE "heal"

\* should_heal without the auto_heal test
should_heal_ignores_flag(st) ==
    IF st.tests_failed = 0 \/ st.healing_attempts >= st.max_heal_attempts
    THEN "complete"
    ELSE "heal"

\* should_heal without the failed-test test
should_heal_ignores_failures(st) ==
    IF ~st.auto_heal \/ st.healing_attempts >= st.max_heal_attempts
    THEN "complete"
    ELSE "heal"

\* should_heal: the conditional edge after execute
should_heal(st) ==
    IF ~st.auto_heal \/ st.tests_failed = 0
       \/ st.healing_attempts >= st.max_heal_attempts
    THEN "complete"
    ELSE "heal"

\* execution_node. raised: the runner call raised; outcome: the result it
\* returned otherwise; sink: outcome of the database update on the success path.
execution_node(st, raised, outcome, sink) ==
    IF ~st.tests_directory
    THEN [st EXCEPT !.status = "failed", !.error_message = "no_tests_directory",
                    !.tests_passed = 0, !.tests_failed = 0]
    ELSE IF raised
    THEN [st EXCEPT !.status = "failed", !.error_message = "execution",
                    !.tests_passed = 0, !.tests_failed = 0]
    ELSE IF ~outcome.ok
    THEN [st EXCEPT !.execution_result = outcome,
                    !.tests_passed = 0, !.tests_failed = 0]
    ELSE IF sink = "raise"
    THEN [st EXCEPT !.status = "failed", !.error_message = "execution",
                    !.tests_passed = 0, !.tests_failed = 0]
    ELSE [st EXCEPT !.execution_result = outcome,
                    !.tests_passed = outcome.passed,
                    !.tests_failed = outcome.failed]

\* execution_node reaches its state_updater call only on the success path
ExecutionPersists(st, raised, outcome) ==
    st.tests_directory /\ ~raised /\ outcome.ok

\* failed_tests[:3] of healing_node
HealSample(st) ==
    IF st.execution_result.failed < HEAL_SAMPLE
    THEN st.execution_result.failed ELSE HEAL_SAMPLE

\* healing_node where a visit that wrote no fix does not count as an attempt
healing_node_free_retry(st, fixes, raised) ==
    IF ~st.tests_directory
    THEN [st EXCEPT !.healing_attempts = @ + 1, !.is_healed = FALSE]
    ELSE IF st.execution_result.failed = 0
    THEN [st EXCEPT !.healing_attempts = @ + 1, !.is_healed = TRUE]
    ELSE IF raised
    THEN [st EXCEPT !.healing_attempts = @ + 1, !.is_healed = FALSE]
    ELSE IF fixes = 0
    THEN [st EXCEPT !.is_healed = FALSE]
    ELSE [st EXCEPT !.healing_attempts = @ + 1, !.is_healed = TRUE]

\* healing_node returning a state whose budget it has used up
healing_node_spending_budget(st, fixes, raised) ==
    IF ~st.tests_directory
    THEN [st EXCEPT !.healing_attempts = @ + 1, !.is_healed = FALSE]
    ELSE IF st.execution_result.failed = 0
    THEN [st EXCEPT !.healing_attempts = @ + 1, !.is_healed = TRUE]
    ELSE IF raised
    THEN [st EXCEPT !.healing_attempts = @ + 1, !.is_healed = FALSE]
    ELSE [st EXCEPT !.healing_attempts = @ + 1, !.is_healed = (fixes > 0),
                    !.max_heal_attempts = st.healing_attempts + 1]

\* healing_node whose exception path does not count the visit
healing_node_uncounted_exception(st, fixes, raised) ==
    IF ~st.tests_directory
    THEN [st EXCEPT !.healing_attempts = @ + 1, !.is_healed = FALSE]
    ELSE IF st.execution_result.failed = 0
    THEN [st EXCEPT !.healing_attempts = @ + 1, !.is_healed = TRUE]
    ELSE IF raised
    THEN [st EXCEPT !.is_healed = FALSE]
    ELSE [st EXCEPT !.healing_attempts = @ + 1, !.is_healed = (fixes > 0)]


\* healing_node. fixes: files it rewrote; raised: an exception inside its
\* try block (reading or writing a file, or the database update).
healing_node(st, fixes, raised) ==
    IF ~st.tests_directory
    THEN [st EXCEPT !.healing_attempts = @ + 1, !.is_healed = FALSE]
    ELSE IF st.execution_result.failed = 0
    THEN [st EXCEPT !.healing_attempts = @ + 1, !.is_healed = TRUE]
    ELSE IF raised
    THEN [st EXCEPT !.healing_attempts = @ + 1, !.is_healed = FALSE]
    ELSE [st EXCEPT !.healing_attempts = @ + 1, !.is_healed = (fixes > 0)]

\* healing_node reaches its state_updater call after the fix loop
HealingPersists(st) ==
    st.tests_directory /\ st.execution_result.failed > 0

\* ====================================================================
\*  One run in detail: auto_heal_and_rerun
\* ====================================================================

\* The arguments of a call and the locals before the loop
HealerCall(mx, ft) ==
    [pc |-> "idle", max_attempts |-> mx, failed_tests |-> ft,
     attempt_num |-> 0, attempts |-> 0, last |-> NoResult,
     healed |-> FALSE, healing_attempts |-> 0, final_result |-> NoResult,
     has_final |-> FALSE]

\* A return after the loop that reports the passes of the loop instead of
\* the recorded attempts
HealerExitCountingPasses(h) ==
    [h EXCEPT !.pc = "returned", !.healed = FALSE,
              !.healing_attempts = h.attempt_num,
              !.final_result = h.last, !.has_final = (h.attempts > 0)]


\* Falling out of the for loop (range exhausted or break): the return
\* statement after the loop
HealerExit(h) ==
    [h EXCEPT !.pc = "returned", !.healed = FALSE,
              !.healing_attempts = h.attempts,
              !.final_result = h.last, !.has_final = (h.attempts > 0)]

\* "continue" and the end of the loop body: next value of the range, or out
HealerContinue(h) ==
    IF h.attempt_num >= h.max_attempts
    THEN HealerExit(h)
    ELSE [h EXCEPT !.attempt_num = @ + 1]

\* The return inside the loop, when the re-run has no failure and a pass
HealerSuccess(h, rr) ==
    [h EXCEPT !.pc = "returned", !.healed = TRUE,
              !.attempts = @ + 1, !.last = rr,
              !.healing_attempts = h.attempt_num,
              !.final_result = rr, !.has_final = TRUE]

\* A loop body that gives up when the re-run shows no improvement
HealerAttemptGivingUp(h, sugg, patch, raised, rerun) ==
    IF sugg = "raise" THEN HealerContinue(h)
    ELSE IF sugg = "none" \/ h.failed_tests = 0 THEN HealerExit(h)
    ELSE IF patch # "ok" THEN HealerContinue(h)
    ELSE IF raised THEN HealerContinue(h)
    ELSE IF rerun.failed = 0 /\ rerun.passed > 0 THEN HealerSuccess(h, rerun)
    ELSE IF rerun.failed >= h.failed_tests
    THEN HealerExit([h EXCEPT !.attempts = @ + 1, !.last = rerun])
    ELSE HealerContinue(
            [h EXCEPT !.attempts = @ + 1, !.last = rerun,
                      !.failed_tests = rerun.failed])

\* One pass of the loop body.
\* sugg: get_heal_suggestions raised, returned nothing usable, or some;
\* patch: apply_patch returned ok, returned not ok, or raised;
\* raised: run_playwright_tests raised; rerun: the result it returned otherwise.
HealerAttempt(h, sugg, patch, raised, rerun) ==
    IF sugg = "raise" THEN HealerContinue(h)
    ELSE IF sugg = "none" \/ h.failed_tests = 0 THEN HealerExit(h)
    ELSE IF patch # "ok" THEN HealerContinue(h)
    ELSE IF raised THEN HealerContinue(h)
    ELSE IF rerun.failed = 0 /\ rerun.passed > 0 THEN HealerSuccess(h, rerun)
    ELSE HealerContinue(
            [h EXCEPT !.attempts = @ + 1, !.last = rerun,
                      !.failed_tests = IF rerun.failed < h.failed_tests
                                       THEN rerun.failed ELSE @])

\* Whether the pass re-ran the tests
HealerReran(h, sugg, patch, raised) ==
    sugg = "some" /\ h.failed_tests > 0 /\ patch = "ok" /\ ~raised

\* ---- the generated tests directory, reduced to the test file a patch
\* targets and its .bak sibling; a content is a version number.
Absent == 0                         \* the file does not exist
Original == 1                       \* the code generator's content

EmptyDir == [test |-> Absent, bak |-> Absent]
GeneratedDir == [test |-> Original, bak |-> Absent]

\* patch_dict["content"] as apply_patch sees it: valid test code, code
\* with a syntax error, code without "def test_", or none ("" or None)
PatchKinds == {"valid", "syntax", "nomarker", "missing"}
RejectedKinds == {"syntax", "nomarker", "missing"}

\* Outcomes of the two shutil calls around apply_patch
BackupOutcomes == {"ok", "fail"}
RestoreOutcomes == {"ok", "rmtree_fails", "copytree_fails"}

\* apply_patch: an existing target is renamed to .bak (replacing an older
\* .bak); missing content raises at once; rejected content renames the
\* .bak back and raises; valid content is written. ok: it returned.
ApplyPatch(d, kind, fresh) ==
    LET renamed == IF d.test # Absent
                   THEN [test |-> Absent, bak |-> d.test]
                   ELSE d
    IN  IF kind = "missing"
        THEN [ok |-> FALSE, dir |-> renamed]
        ELSE IF kind \in {"syntax", "nomarker"}
        THEN [ok |-> FALSE,
              dir |-> IF d.test # Absent
                      THEN [test |-> renamed.bak, bak |-> Absent]
                      ELSE d]
        ELSE [ok |-> TRUE, dir |-> [renamed EXCEPT !.test = fresh]]

\* auto_heal_and_rerun after a failed apply_patch: when the backup
\* directory exists, rmtree(gen_dir) then copytree(backup_dir, gen_dir),
\* either of which may fail (logged only).
RestoreFromBackup(d, snapshot, bk, rs) ==
    IF bk # "ok" THEN d
    ELSE IF rs = "ok" THEN snapshot
    ELSE IF rs = "rmtree_fails" THEN d
    ELSE EmptyDir

\* The directory after one pass of the loop body
AttemptDir(h, d, sugg, kind, bk, rs) ==
    IF sugg # "some" \/ h.failed_tests = 0 THEN d
    ELSE LET ap == ApplyPatch(d, kind, h.attempt_num + 1)
         IN  IF ap.ok THEN ap.dir
             ELSE RestoreFromBackup(ap.dir, d, bk, rs)

\* What apply_patch did, as the loop body sees it
PatchOutcome(d, kind) ==
    IF ApplyPatch(d, kind, Original).ok THEN "ok" ELSE "raise"

RInit ==
    /\ driver \in {"graph", "healer"}
    /\ node = "start"
    /\ state \in {[Config(ah, mx) EXCEPT !.test_creation_mode = m] :
                    ah \in (IF driver = "graph" THEN BOOLEAN ELSE {TRUE}),
                    mx \in (IF driver = "graph" THEN 0..MaxHeal ELSE {0}),
                    m \in (IF driver = "graph" THEN Modes ELSE {"ai"})}
    /\ initial_state = state
    /\ run_row = "queued"
    /\ executions = 0
    /\ heals = 0
    /\ report_log = <<>>
    /\ fix_log = <<>>
    /\ hl \in IF driver = "healer"
              THEN {HealerCall(mx, ft) : mx \in 0..MaxHeal, ft \in 1..MaxTests}
              ELSE {HealerCall(0, 0)}
    /\ gen_dir = IF driver = "healer" THEN GeneratedDir ELSE EmptyDir
    /\ last_patch = "none"
    /\ backup_dir = "none"

\* The workflow raised: run()'s except branch builds failed_state from
\* initial_state and persists it; a failing persist leaves run() by exception.
WorkflowRaised(sink) ==
    /\ state' = FailedState(initial_state)
    /\ run_row' = IF sink = "ok" THEN "failed" ELSE run_row
    /\ node' = IF sink = "ok" THEN "returned" ELSE "raised"

\* run() up to workflow.ainvoke: the write of the initial state and the
\* choice of the workflow are outside the try block, so a failing write or
\* an unknown mode leaves run() by exception.
run_begin(sink) ==
    /\ driver = "graph" /\ node = "start"
    /\ initial_state' = InitialState(state)
    /\ IF sink = "ok"
       THEN /\ state' = InitialState(state)
            /\ run_row' = "running"
            /\ node' = IF state.test_creation_mode = "ai"
                       THEN "discovery" ELSE "raised"
       ELSE /\ state' = InitialState(state)
            /\ run_row' = run_row
            /\ node' = "raised"
    /\ UNCHANGED <<executions, heals, report_log, fix_log, hl, gen_dir,
                   last_patch, backup_dir>>
    /\ UNCHANGED <<driver, qvars, pvars>>

\* discovery_node: both branches persist the state they return.
\* sink: outcome of that write; fsink: outcome of run()'s write of the
\* failed state when the node's write raised.
discovery_node(ok, sink, fsink) ==
    /\ driver = "graph" /\ node = "discovery"
    /\ IF sink = "raise"
       THEN WorkflowRaised(fsink)
       ELSE /\ state' = IF ok THEN state
                        ELSE [state EXCEPT !.status = "failed",
                                           !.error_message = "discovery"]
            /\ run_row' = state'.status
            /\ node' = "story"
    /\ UNCHANGED <<initial_state, executions, heals, report_log, fix_log, hl,
                   gen_dir, last_patch, backup_dir>>
    /\ UNCHANGED <<driver, qvars, pvars>>

\* story_generator_node: the user's story, a generated one or the fallback.
\* blank: the model answered ok with an empty response, which is taken as
\* the story; the model is asked only when discovery gave pages.
story_generator_node(blank) ==
    /\ driver = "graph" /\ node = "story"
    /\ blank => state.status # "failed"
    /\ state' = [state EXCEPT !.final_story = ~blank]
    /\ node' = "scenarios"
    /\ UNCHANGED <<initial_state, run_row, executions, heals, report_log,
                   fix_log, hl, gen_dir, last_patch, backup_dir>>
    /\ UNCHANGED <<driver, qvars, pvars>>

\* scenario_converter_node: parsed scenarios or the fallback scenario
scenario_converter_node ==
    /\ driver = "graph" /\ node = "scenarios"
    /\ state' = IF ~state.final_story
                THEN [state EXCEPT !.status = "failed",
                                   !.error_message = "no_story"]
                ELSE [state EXCEPT !.scenarios = TRUE]
    /\ node' = "code"
    /\ UNCHANGED <<initial_state, run_row, executions, heals, report_log,
                   fix_log, hl, gen_dir, last_patch, backup_dir>>
    /\ UNCHANGED <<driver, qvars, pvars>>

\* code_generator_node. outcome: "generated" (at least one file written),
\* "none" (no file could be written), "raise" (preparing the directory raised)
code_generator_node(outcome, sink) ==
    /\ driver = "graph" /\ node = "code"
    /\ IF ~state.scenarios
       THEN /\ state' = [state EXCEPT !.status = "failed",
                                      !.error_message = "no_scenarios"]
            /\ node' = "execute"
            /\ UNCHANGED run_row
       ELSE IF outcome = "raise"
       THEN WorkflowRaised(sink)
       ELSE /\ state' = IF outcome = "none"
                        THEN [state EXCEPT !.status = "failed",
                                           !.error_message = "no_tests"]
                        ELSE [state EXCEPT !.tests_directory = TRUE]
            /\ node' = "execute"
            /\ UNCHANGED run_row
    /\ gen_dir' = IF state.scenarios /\ outcome = "generated"
                   THEN GeneratedDir ELSE gen_dir
    /\ UNCHANGED <<initial_state, executions, heals, report_log, fix_log, hl,
                   last_patch, backup_dir>>
    /\ UNCHANGED <<driver, qvars, pvars>>

\* execute node followed by the conditional edge should_heal
execute(raised, outcome, sink) ==
    /\ driver = "graph" /\ node = "execute"
    /\ state' = execution_node(state, raised, outcome, sink)
    /\ run_row' = IF ExecutionPersists(state, raised, outcome) /\ sink = "ok"
                  THEN state'.status ELSE run_row
    /\ node' = IF should_heal(state') = "heal" THEN "heal" ELSE "finish"
    /\ executions' = executions + 1
    /\ report_log' = Append(report_log,
                            IF raised \/ ~state.tests_directory
                            THEN NoResult ELSE outcome)
    /\ UNCHANGED <<initial_state, heals, fix_log, hl, gen_dir, last_patch, backup_dir>>
    /\ UNCHANGED <<driver, qvars, pvars>>

\* A heal node wired to the end of the graph instead of back to execute
heal_to_end(fixes, raised, sink) ==
    /\ driver = "graph" /\ node = "heal"
    /\ fixes \in 0..HealSample(state)
    /\ state' = healing_node(state, fixes, raised \/ sink = "raise")
    /\ run_row' = IF HealingPersists(state) /\ ~raised /\ sink = "ok"
                  THEN state'.status ELSE run_row
    /\ node' = "finish"
    /\ heals' = heals + 1
    /\ fix_log' = Append(fix_log, fixes)
    /\ gen_dir' = IF HealingPersists(state) /\ fixes > 0
                   THEN [gen_dir EXCEPT !.test = heals + 2]
                   ELSE gen_dir
    /\ UNCHANGED <<initial_state, executions, report_log, hl, last_patch, backup_dir>>
    /\ UNCHANGED <<driver, qvars, pvars>>

\* heal node followed by the edge back to execute
heal(fixes, raised, sink) ==
    /\ driver = "graph" /\ node = "heal"
    /\ fixes \in 0..HealSample(state)
    /\ state' = healing_node(state, fixes, raised \/ sink = "raise")
    /\ run_row' = IF HealingPersists(state) /\ ~raised /\ sink = "ok"
                  THEN state'.status ELSE run_row
    /\ node' = "execute"
    /\ heals' = heals + 1
    /\ fix_log' = Append(fix_log, fixes)
    /\ gen_dir' = IF HealingPersists(state) /\ fixes > 0
                   THEN [gen_dir EXCEPT !.test = heals + 2]
                   ELSE gen_dir
    /\ UNCHANGED <<initial_state, executions, report_log, hl, last_patch, backup_dir>>
    /\ UNCHANGED <<driver, qvars, pvars>>

\* run() after the workflow returned: mark completed, persist, return.
\* sink: outcome of the write of the final state; fsink: outcome of the
\* except branch's write of the failed state when that write raised.
run_finish(sink, fsink) ==
    /\ driver = "graph" /\ node = "finish"
    /\ IF sink = "ok"
       THEN /\ state' = [state EXCEPT !.status = "completed",
                                      !.completed_at = TRUE]
            /\ run_row' = "completed"
            /\ node' = "returned"
       ELSE WorkflowRaised(fsink)
    /\ UNCHANGED <<initial_state, executions, heals, report_log, fix_log, hl,
                   gen_dir, last_patch, backup_dir>>
    /\ UNCHANGED <<driver, qvars, pvars>>

\* auto_heal_and_rerun is called: the loop starts, or is skipped when
\* range(1, max_attempts + 1) is empty
auto_heal_and_rerun ==
    /\ driver \in {"healer", "sync"} /\ hl.pc = "idle"
    /\ hl' = HealerContinue([hl EXCEPT !.pc = "loop"])
    /\ UNCHANGED <<node, state, initial_state, run_row, executions, heals,
                   report_log, fix_log, gen_dir, last_patch, backup_dir>>
    /\ UNCHANGED <<driver, qvars, pvars>>

\* One healing attempt of auto_heal_and_rerun
\* sugg: what get_heal_suggestions gave; kind: the content of the selected
\* patch; bk, rs: outcomes of the backup and of the restore; raised, rerun:
\* what the re-run did.
heal_attempt(sugg, kind, bk, rs, raised, rerun) ==
    /\ driver \in {"healer", "sync"} /\ hl.pc = "loop"
    /\ LET patch == PatchOutcome(gen_dir, kind)
       IN  /\ hl' = HealerAttempt(hl, sugg, patch, raised, rerun)
           /\ report_log' = IF HealerReran(hl, sugg, patch, raised)
                            THEN Append(report_log, rerun) ELSE report_log
    /\ gen_dir' = AttemptDir(hl, gen_dir, sugg, kind, bk, rs)
    /\ last_patch' = IF sugg = "some" /\ hl.failed_tests > 0
                      THEN kind ELSE "none"
    /\ backup_dir' = IF sugg = "some" /\ hl.failed_tests > 0
                    THEN (IF bk = "ok" THEN "taken" ELSE "failed")
                    ELSE "none"
    /\ heals' = heals + 1
    /\ UNCHANGED <<node, state, initial_state, run_row, executions, fix_log>>
    /\ UNCHANGED <<driver, qvars, pvars>>

RNext ==
    \/ \E s \in SinkOutcomes : run_begin(s)
    \/ \E ok \in BOOLEAN, s \in SinkOutcomes, fs \in SinkOutcomes :
          discovery_node(ok, s, fs)
    \/ \E blank \in BOOLEAN : story_generator_node(blank)
    \/ scenario_converter_node
    \/ \E o \in {"generated", "none", "raise"}, s \in SinkOutcomes :
          code_generator_node(o, s)
    \/ \E x \in BOOLEAN, o \in RunnerResults, s \in SinkOutcomes :
          execute(x, o, s)
    \/ \E f \in 0..HEAL_SAMPLE, x \in BOOLEAN, s \in SinkOutcomes : heal(f, x, s)
    \/ \E s \in SinkOutcomes, fs \in SinkOutcomes : run_finish(s, fs)
    \/ auto_heal_and_rerun
    \/ \E sg \in {"raise", "none", "some"}, k \in PatchKinds,
          bk \in BackupOutcomes, rs \in RestoreOutcomes,
          x \in BOOLEAN, rr \in RunnerResults :
             heal_attempt(sg, k, bk, rs, x, rr)

\* ====================================================================
\*  One run in detail: run_pipeline_sync (the thread-based pipeline)
\* ====================================================================

\* The summary of a run: passed, failed and total, where total also counts
\* the tests that neither passed nor failed (skipped ones)
Summary(rr, skipped) ==
    [passed |-> rr.passed, failed |-> rr.failed,
     total |-> rr.passed + rr.failed + skipped]

\* The status the recorder branch stores after its execution
RecordedStatus(sm) ==
    IF sm.passed = sm.total THEN "completed" ELSE "failed"

\* The branch taken after the execution of the normal pipeline
SyncBranch(sm, ah) ==
    IF sm.failed = 0 /\ sm.passed > 0 THEN "passed"
    ELSE IF sm.failed > 0 /\ ah THEN "healing"
    ELSE "failed"

SyncInit ==
    /\ driver = "sync"
    /\ node = "start"
    /\ state \in {Config(ah, mx) : ah \in BOOLEAN, mx \in 0..MaxHeal}
    /\ initial_state = state
    /\ run_row = "queued"
    /\ executions = 0
    /\ heals = 0
    /\ report_log = <<>>
    /\ fix_log = <<>>
    /\ hl = [HealerCall(0, 0) EXCEPT !.pc = "uncalled"]
    /\ gen_dir = EmptyDir
    /\ last_patch = "none"
    /\ backup_dir = "none"

\* The except branch of run_pipeline_sync: log, broadcast, then store
\* status failed with the error message. fsink: outcome of these writes; when
\* one of them raises, the exception leaves the function and the row keeps
\* the status it had.
PipelineFailed(fsink) ==
    /\ state' = IF fsink = "ok"
                THEN [state EXCEPT !.error_message = "exception",
                                   !.completed_at = TRUE]
                ELSE state
    /\ run_row' = IF fsink = "ok" THEN "failed" ELSE run_row
    /\ node' = IF fsink = "ok" THEN "returned" ELSE "raised"

\* run_pipeline_sync up to the execution: with useRecorder the recording is
\* taken and copied into the tests directory (the status is not touched);
\* otherwise the row is set to running and discovery and generation run.
\* raised: any of these steps raised (recording or generation not ok included).
run_pipeline_sync_prepare(use_recorder, raised, fsink) ==
    /\ driver = "sync" /\ node = "start"
    /\ IF raised
       THEN PipelineFailed(fsink)
       ELSE /\ state' = state
            /\ run_row' = IF use_recorder THEN run_row ELSE "running"
            /\ node' = IF use_recorder THEN "recorded" ELSE "execution"
    /\ gen_dir' = IF raised THEN gen_dir ELSE GeneratedDir
    /\ UNCHANGED <<initial_state, executions, heals, report_log, fix_log, hl,
                   last_patch, backup_dir>>
    /\ UNCHANGED <<driver, qvars, pvars>>

\* The recorder branch from the execution of the recorded test to its return
run_pipeline_sync_recorded(raised, rr, skipped, fsink) ==
    /\ driver = "sync" /\ node = "recorded"
    /\ skipped \in 0..(MaxTests - rr.passed - rr.failed)
    /\ IF raised
       THEN /\ PipelineFailed(fsink)
            /\ UNCHANGED <<executions, report_log>>
       ELSE /\ state' = [state EXCEPT !.completed_at = TRUE]
            /\ run_row' = RecordedStatus(Summary(rr, skipped))
            /\ node' = "returned"
            /\ executions' = executions + 1
            /\ report_log' = Append(report_log, rr)
    /\ UNCHANGED <<initial_state, heals, fix_log, hl, gen_dir, last_patch,
                   backup_dir>>
    /\ UNCHANGED <<driver, qvars, pvars>>

\* Phase 3 of the normal pipeline and the branch on its summary: all passed
\* (status completed), failures with autoHeal (auto_heal_and_rerun is
\* called), anything else (status failed)
run_pipeline_sync_execute(raised, rr, fsink) ==
    /\ driver = "sync" /\ node = "execution"
    /\ IF raised
       THEN /\ PipelineFailed(fsink)
            /\ UNCHANGED <<executions, report_log, hl>>
       ELSE LET br == SyncBranch(Summary(rr, 0), state.auto_heal)
            IN  /\ state' = IF br = "passed"
                            THEN [state EXCEPT !.completed_at = TRUE]
                            ELSE state
                /\ run_row' = IF br = "passed" THEN "completed"
                              ELSE IF br = "failed" THEN "failed"
                              ELSE run_row
                /\ node' = IF br = "healing" THEN "healing" ELSE "finish"
                /\ hl' = IF br = "healing"
                         THEN HealerCall(state.max_heal_attempts, rr.failed)
                         ELSE hl
                /\ executions' = executions + 1
                /\ report_log' = Append(report_log, rr)
    /\ UNCHANGED <<initial_state, heals, fix_log, gen_dir, last_patch,
                   backup_dir>>
    /\ UNCHANGED <<driver, qvars, pvars>>

\* auto_heal_and_rerun returned: status completed when it reports healed,
\* failed otherwise
run_pipeline_sync_healed(raised, fsink) ==
    /\ driver = "sync" /\ node = "healing" /\ hl.pc = "returned"
    /\ IF raised
       THEN PipelineFailed(fsink)
       ELSE /\ state' = state
            /\ run_row' = IF hl.healed THEN "completed" ELSE "failed"
            /\ node' = "finish"
    /\ UNCHANGED <<initial_state, executions, heals, report_log, fix_log, hl,
                   gen_dir, last_patch, backup_dir>>
    /\ UNCHANGED <<driver, qvars, pvars>>

\* The last writes of the normal pipeline: phase completed, completed_at,
\* the closing log line
run_pipeline_sync_finish(raised, fsink) ==
    /\ driver = "sync" /\ node = "finish"
    /\ IF raised
       THEN PipelineFailed(fsink)
       ELSE /\ state' = [state EXCEPT !.completed_at = TRUE]
            /\ run_row' = run_row
            /\ node' = "returned"
    /\ UNCHANGED <<initial_state, executions, heals, report_log, fix_log, hl,
                   gen_dir, last_patch, backup_dir>>
    /\ UNCHANGED <<driver, qvars, pvars>>

SyncNext ==
    \/ \E rec \in BOOLEAN, x \in BOOLEAN, fs \in SinkOutcomes :
          run_pipeline_sync_prepare(rec, x, fs)
    \/ \E x \in BOOLEAN, rr \in RunnerResults, sk \in 0..MaxTests,
          fs \in SinkOutcomes :
             run_pipeline_sync_recorded(x, rr, sk, fs)
    \/ \E x \in BOOLEAN, rr \in RunnerResults, fs \in SinkOutcomes :
          run_pipeline_sync_execute(x, rr, fs)
    \/ auto_heal_and_rerun
    \/ \E sg \in {"raise", "none", "some"}, k \in PatchKinds,
          bk \in BackupOutcomes, rs \in RestoreOutcomes,
          x \in BOOLEAN, rr \in RunnerResults :
             heal_attempt(sg, k, bk, rs, x, rr)
    \/ \E x \in BOOLEAN, fs \in SinkOutcomes : run_pipeline_sync_healed(x, fs)
    \/ \E x \in BOOLEAN, fs \in SinkOutcomes : run_pipeline_sync_finish(x, fs)

\* ====================================================================
\*  should_heal in isolation
\* ====================================================================

Contexts ==
    {[Config(ah, mx) EXCEPT !.healing_attempts = ha, !.tests_failed = tf,
                            !.is_healed = ih] :
        ah \in BOOLEAN, mx \in 0..MaxHeal, ha \in 0..(MaxHeal + 1),
        tf \in 0..MaxTests, ih \in BOOLEAN}

\* No call of select_best_suggestion
SIdle ==
    /\ suggestions = <<>> /\ best_suggestion = <<>>

PInit ==
    /\ sh_in \in Contexts
    /\ sh_out = "none"
    /\ SIdle

\* The graph evaluates the conditional edge on the context
evaluate_should_heal ==
    /\ sh_out = "none"
    /\ sh_out' = should_heal(sh_in)
    /\ UNCHANGED <<sh_in, suggestions, best_suggestion>>
    /\ UNCHANGED <<qvars, rvars>>

\* ====================================================================
\*  select_best_suggestion
\* ====================================================================

\* Confidence scores of suggestions: those get_heal_suggestions assigns
\* (0.85, 0.7), the default and one below it
Confidences == {30, DEFAULT_CONFIDENCE, 70, 85}

\* A suggestion as received at position i, with or without a confidence
SuggestionsAt(i) ==
    {[received |-> i]} \cup {[received |-> i, confidence |-> c] : c \in Confidences}

\* Lists of suggestions of length n
SuggestionLists(n) ==
    {l \in [1..n -> UNION {SuggestionsAt(i) : i \in 1..n}] :
        \A i \in 1..n : l[i].received = i}

\* The sort key: float(s.get("confidence", 0.5))
SortKey(s) ==
    IF "confidence" \in DOMAIN s THEN s.confidence ELSE DEFAULT_CONFIDENCE

\* An insertion that puts an element before the elements of equal key
InsertBeforeEqual(srt, s) ==
    LET k == Cardinality({i \in 1..Len(srt) : SortKey(srt[i]) > SortKey(s)})
    IN  SubSeq(srt, 1, k) \o <<s>> \o SubSeq(srt, k + 1, Len(srt))

\* sorted(..., reverse=True) is stable: an element goes behind the elements
\* of greater or equal key that precede it in the list
InsertStable(srt, s) ==
    LET k == Cardinality({i \in 1..Len(srt) : SortKey(srt[i]) >= SortKey(s)})
    IN  SubSeq(srt, 1, k) \o <<s>> \o SubSeq(srt, k + 1, Len(srt))

RECURSIVE SortedByConfidence(_)
\* sorted(suggestions, key=..., reverse=True)
SortedByConfidence(l) ==
    IF l = <<>> THEN <<>>
    ELSE InsertStable(SortedByConfidence(SubSeq(l, 1, Len(l) - 1)), l[Len(l)])

\* select_best_suggestion on a non-empty list: sorted_suggestions[0]
SelectBest(l) == SortedByConfidence(l)[1]

SInit ==
    /\ suggestions \in UNION {SuggestionLists(n) : n \in 1..MaxSuggestions}
    /\ best_suggestion = <<>>

\* auto_heal_and_rerun calls select_best_suggestion on the list it received
select_best_suggestion ==
    /\ best_suggestion = <<>>
    /\ best_suggestion' = <<SelectBest(suggestions)>>
    /\ UNCHANGED <<sh_in, sh_out, suggestions>>
    /\ UNCHANGED <<qvars, rvars>>

\* ====================================================================
\*  Specifications
\* ====================================================================

QIdle ==
    /\ max_concurrent = 1 /\ semaphore = 1 /\ queue = <<>> /\ active_runs = {}
    /\ is_processing = FALSE /\ pq_pending = 0 /\ dispatcher = "idle"
    /\ task = [r \in RunIds |-> "new"] /\ row = [r \in RunIds |-> "queued"]
    /\ wf_status = [r \in RunIds |-> "none"]
    /\ result = [r \in RunIds |-> "none"]
    /\ in_loop = 0
    /\ enq_log = <<>> /\ start_log = <<>> /\ cancelled_queued = {}

RIdle ==
    /\ driver = "none" /\ node = "start" /\ state = Config(TRUE, 0)
    /\ initial_state = state /\ run_row = "queued"
    /\ executions = 0 /\ heals = 0 /\ report_log = <<>> /\ fix_log = <<>>
    /\ hl = HealerCall(0, 0) /\ gen_dir = EmptyDir /\ last_patch = "none"
    /\ backup_dir = "none"

PIdle ==
    /\ sh_in = Config(TRUE, 0) /\ sh_out = "none"
    /\ SIdle

Init == QInit /\ RIdle /\ PIdle
Next == QNext
Spec == Init /\ [][Next]_vars

\* The slot bookkeeping of the manager with the exception path of
\* _execute_run and the status query. Left out are cancel_run and the stage writes: they change
\* only row, wf_status and cancelled_queued, which no guard reads.
NextSlots ==
    \/ \E r \in RunIds : enqueue_run(r)
    \/ process_queue
    \/ process_queue_resume
    \/ \E r \in RunIds : execute_run_start(r)
    \/ \E r \in RunIds : pipeline_begin(r)
    \/ \E r \in RunIds, x \in BOOLEAN : pipeline_return(r, x)
    \/ \E r \in RunIds, s \in {"ok", "raise"} : pipeline_raise(r, s)
    \/ \E r \in RunIds : execute_run_finally(r)
    \/ get_status
SpecSlots == Init /\ [][NextSlots]_vars

\* The event loop runs every task that is ready: a created process_queue
\* task starts, and the dispatcher's sleep(1) returns.
SpecSlotsFair ==
    /\ Init /\ [][NextSlots]_vars
    /\ WF_vars(process_queue) /\ WF_vars(process_queue_resume)

InitRun == QIdle /\ RInit /\ PIdle
NextRun == RNext
SpecRun == InitRun /\ [][NextRun]_vars

\* One run under weak fairness: every external call returns, so a step
\* that can be taken is eventually taken.
SpecRunFair == InitRun /\ [][NextRun]_vars /\ WF_vars(NextRun)

\* One run of the thread-based pipeline
InitSync == QIdle /\ SyncInit /\ PIdle
NextSync == SyncNext
SpecSync == InitSync /\ [][NextSync]_vars

InitPred == QIdle /\ RIdle /\ PInit
NextPred == evaluate_should_heal
SpecPred == InitPred /\ [][NextPred]_vars

InitSelect ==
    /\ QIdle /\ RIdle
    /\ sh_in = Config(TRUE, 0) /\ sh_out = "none"
    /\ SInit
NextSelect == select_best_suggestion
SpecSelect == InitSelect /\ [][NextSelect]_vars

\* ====================================================================
\*  Properties
\* ====================================================================

Range(s) == {s[i] : i \in 1..Len(s)}

\* Runs the dispatcher has started whose pipeline has not yet returned
InFlight == {r \in RunIds : task[r] \in {"created", "starting", "workflow"}}

\* C1: the number of active runs never exceeds max_concurrent.
C1_ActiveWithinBound == Cardinality(active_runs) <= max_concurrent

\* C2: a run's permit is released only when its pipeline reaches a terminal
\* state: every started run whose pipeline has not returned still holds a
\* permit, so with max_concurrent = 1 a second run is not started before the
\* first has finished.
C2_PermitHeldUntilTerminal ==
    Cardinality(InFlight) <= max_concurrent - semaphore

\* C3: a run cancelled while it is still queued is removed from the pending
\* queue and is never started by the dispatcher.
C3_CancelledQueuedNeverDispatched ==
    \A r \in cancelled_queued : ~InQueue(r) /\ r \notin Range(start_log)

C5_HealingBudget ==
    /\ driver = "graph" =>
          /\ state.healing_attempts <= state.max_heal_attempts
          /\ heals <= state.max_heal_attempts
    /\ driver = "healer" =>
          /\ heals <= hl.max_attempts
          /\ hl.attempt_num <= hl.max_attempts
          /\ hl.attempts <= hl.max_attempts
          /\ hl.healing_attempts <= hl.max_attempts

\* C5 witness: a run that used its whole budget of two attempts and still
\* has failing tests.
C5_Witness ==
    /\ driver = "graph" /\ node = "finish"
    /\ state.max_heal_attempts = 2 /\ state.healing_attempts = 2
    /\ heals = 2 /\ state.tests_failed > 0

\* C6: should_heal returns heal iff auto_heal and tests_failed > 0 and
\* healing_attempts < max_heal_attempts, and complete otherwise.
C6_ShouldHealIff ==
    sh_out # "none" =>
        /\ sh_out \in {"heal", "complete"}
        /\ (sh_out = "heal") <=>
               (/\ sh_in.auto_heal
                /\ sh_in.tests_failed > 0
                /\ sh_in.healing_attempts < sh_in.max_heal_attempts)

\* C6 witness: the predicate chose heal.
C6_Witness ==
    sh_out = "heal" /\ sh_in.tests_failed > 0

\* C7: with auto_heal off the heal node is never entered and
\* healing_attempts stays 0.
C7_NoHealWhenDisabled ==
    (driver = "graph" /\ ~state.auto_heal) =>
        /\ node # "heal"
        /\ heals = 0
        /\ state.healing_attempts = 0

\* C7 witness: an execution with failures and budget left went to the end
\* because auto_heal is off.
C7_Witness ==
    /\ driver = "graph" /\ ~state.auto_heal /\ node = "finish"
    /\ state.tests_failed > 0 /\ state.max_heal_attempts > 0

\* C8: once a run's status is completed, failed or cancelled, no step
\* changes it.
C8_StatusMonotonic ==
    [][\A r \in RunIds : row[r] \in Terminal => row'[r] = row[r]]_vars

\* C9: is_healed implies status = completed.
C9_HealedImpliesCompleted ==
    driver = "graph" => (state.is_healed => state.status = "completed")

\* C10: max attempts 2, first execution and first re-run with failures,
\* second re-run with no failure and a pass: the run ends completed,
\* healed, with two attempts.
C10_TwoAttemptScenario ==
    /\ ( /\ driver = "graph" /\ node = "returned"
         /\ initial_state.auto_heal /\ initial_state.max_heal_attempts = 2
         /\ Len(report_log) = 3
         /\ report_log[1].failed > 0 /\ report_log[2].failed > 0
         /\ report_log[3].failed = 0 /\ report_log[3].passed > 0 )
       => ( /\ state.status = "completed"
            /\ state.is_healed
            /\ state.healing_attempts = 2 )
    /\ ( /\ driver = "healer" /\ hl.pc = "returned"
         /\ hl.max_attempts = 2
         /\ Len(report_log) = 2
         /\ report_log[1].failed > 0
         /\ report_log[2].failed = 0 /\ report_log[2].passed > 0 )
       => ( hl.healed /\ hl.healing_attempts = 2 )

\* C11: when the healing budget is used up (healing_attempts =
\* max_heal_attempts after at least one attempt) and the last re-run still
\* has failing tests, the run ends failed and not healed, and the last
\* re-run's result is the final execution result.
C11_BudgetExhaustion ==
    ( /\ driver = "graph" /\ node = "returned"
      /\ heals > 0
      /\ state.healing_attempts = state.max_heal_attempts
      /\ Len(report_log) = heals + 1
      /\ report_log[Len(report_log)].ok
      /\ report_log[Len(report_log)].failed > 0
      /\ state.tests_failed > 0 )
    => ( /\ state.status = "failed"
         /\ ~state.is_healed
         /\ state.execution_result = report_log[Len(report_log)] )

\* C12: a healing attempt that obtains zero suggestions aborts the loop:
\* no re-execution and no further attempt follow it, healing_attempts is
\* not changed by it, and the run ends failed.
C12_NoSuggestionsAborts ==
    driver = "graph" =>
        \A i \in 1..Len(fix_log) :
            fix_log[i] = 0 =>
                /\ executions <= i
                /\ heals <= i
                /\ state.healing_attempts < i
                /\ (node = "returned" => state.status = "failed")

\* C13: a healing attempt whose selected patch is rejected (syntax error,
\* no test function, or no content) leaves the generated tests directory
\* exactly as it was before the attempt: same files, same contents, no
\* leftover .bak.
C13_RollbackCorrectness ==
    [][ ( /\ driver = "healer"
          /\ heals' = heals + 1
          /\ last_patch' \in RejectedKinds )
        => gen_dir' = gen_dir ]_vars

\* C14: cancel_run returns true and sets the status to cancelled when the
\* run is queued or running; it returns false and leaves every status
\* alone when the run is completed, failed or cancelled, or has no row.
\* A call that finds no queued or running row changes nothing, so its
\* return value is a property of the state; a call that changes a row is
\* a step.
C14_CancelReturn ==
    /\ [](\A r \in RunIds \cup {NoSuchRun} :
            ~(RowExists(r) /\ row[r] \in {"queued", "running"})
                => CancelReturn(r) = FALSE)
    /\ [][ (row' # row \/ cancelled_queued' # cancelled_queued) =>
          \A r \in RunIds \cup {NoSuchRun} :
            cancel_run(r) =>
              IF RowExists(r) /\ row[r] \in {"queued", "running"}
              THEN /\ CancelReturn(r) = TRUE
                   /\ row'[r] = "cancelled"
                   /\ \A o \in RunIds \ {r} : row'[o] = row[o]
              ELSE /\ CancelReturn(r) = FALSE
                   /\ row' = row ]_vars

\* C14 witness: one run was cancelled while its workflow was running and
\* another had already completed, so that cancel_run finds it terminal.
C14_Witness ==
    \E r, o \in RunIds :
        /\ r # o
        /\ row[r] = "cancelled" /\ task[r] = "workflow"
        /\ row[o] = "completed" /\ task[o] = "done"

\* C15: a run cancelled while it is running halts with final status
\* cancelled: when the pipeline of a run whose row says cancelled returns,
\* the row still says cancelled and the pipeline reports neither completed
\* nor failed.
C15_CooperativeCancellation ==
    [][ \A r \in RunIds :
          ( /\ row[r] = "cancelled"
            /\ task[r] = "workflow" /\ task'[r] = "reporting" )
          => ( /\ row'[r] = "cancelled"
               /\ result'[r] \notin {"completed", "failed"} ) ]_vars

\* C16: enqueue_run appends the run to the pending queue and returns its
\* 1-based position there with the wait estimate (position - 1) *
\* AVERAGE_RUN_SECONDS, 0 for position 1; the second of two enqueues made
\* back to back on an idle manager reports position 2.
C16_EnqueuePosition ==
    [][ \A r \in RunIds :
          enqueue_run(r) =>
              LET ret == EnqueueReturn(queue', active_runs)
              IN  /\ queue' = Append(queue, r)
                  /\ ret.position \in 1..Len(queue')
                  /\ queue'[ret.position] = r
                  /\ ret.estimated_wait_seconds =
                        (ret.position - 1) * AVERAGE_RUN_SECONDS
                  /\ (ret.position = 1 => ret.estimated_wait_seconds = 0)
                  /\ (Len(enq_log) = 1 /\ start_log = <<>>)
                        => ret.position = 2 ]_vars

\* C16 witness: two enqueues back to back on an idle manager, both runs
\* still pending.
C16_Witness ==
    /\ Len(enq_log) = 2 /\ Len(queue) = 2 /\ start_log = <<>>
    /\ ~is_processing /\ in_loop = 0

\* C17: at most one process_queue instance is inside the dispatch loop at
\* any time, and a process_queue task that starts while a dispatcher is
\* running returns without touching the queue, the permits, the runs or
\* the flag.
C17_SingleDispatcher ==
    /\ [](in_loop <= 1 /\ (is_processing <=> in_loop = 1))
    /\ [][ (is_processing /\ pq_pending' = pq_pending - 1)
           => UNCHANGED <<semaphore, queue, active_runs, is_processing,
                          in_loop, dispatcher, task, row, start_log>> ]_vars

\* C17 witness: two enqueue_run calls each scheduled a process_queue
\* task; one became the dispatcher and sleeps inside the loop, the other
\* has started and returned, and the second run is still pending.
C17_Witness ==
    /\ Len(enq_log) = 2 /\ Len(start_log) = 1 /\ Len(queue) = 1
    /\ in_loop = 1 /\ dispatcher = "sleeping" /\ pq_pending = 0

\* The run or the healing loop has stopped: run() returned or raised,
\* auto_heal_and_rerun returned.
Halted ==
    \/ driver = "graph" /\ node \in {"returned", "raised"}
    \/ driver = "healer" /\ hl.pc = "returned"

\* C19: for every max_heal_attempts and every sequence of collaborator
\* outcomes the execute/heal cycle stops after finitely many steps (at most
\* max_heal_attempts + 1 executions, at most max_attempts loop passes), the
\* run halts, and a run that returns has a terminal status.
C19_Termination ==
    /\ [](driver = "graph" =>
            /\ executions <= state.max_heal_attempts + 1
            /\ heals <= executions)
    /\ [](driver = "healer" => heals <= hl.max_attempts)
    /\ []((driver = "graph" /\ node = "returned") => state.status \in Terminal)
    /\ <>[]Halted

\* C19 witness: a run whose every heal visit wrote no fix and whose every
\* execution failed went round the cycle twice and returned.
C19_Witness ==
    /\ driver = "graph" /\ node = "returned"
    /\ state.max_heal_attempts = 2
    /\ executions = 3 /\ fix_log = <<0, 0>>
    /\ report_log[3].failed > 0
    /\ state.status \in Terminal

\* C20: no failure raised inside a run leaves LangGraphPipeline.run as an
\* exception: run() always returns, and when it returns after the workflow
\* raised, the status is failed and error_message is set.
C20_NoFaultCrossesRunBoundary ==
    driver = "graph" =>
        /\ node # "raised"
        /\ (node = "returned" /\ state.error_message = "exception")
              => state.status = "failed"

\* Runs the dispatcher has started and whose _execute_run task has not
\* passed its finally block
Dispatched == {r \in RunIds : task[r] \in {"created", "starting", "workflow", "reporting"}}

\* C21: a run is in the active set exactly from its dispatch until the
\* finally block of its _execute_run task, whether the pipeline returned
\* completed, returned failed or raised; once every dispatched run has
\* finished, the active set is empty.
C21_SlotRelease ==
    /\ active_runs = Dispatched
    /\ (\A r \in RunIds : task[r] \in {"new", "queued", "done"}) => active_runs = {}

\* C21 witness: one run finished after its pipeline raised, another after
\* its pipeline returned, and the active set is empty again.
C21_Witness ==
    \E r, o \in RunIds :
        /\ task[r] = "done" /\ result[r] = "raised"
        /\ task[o] = "done" /\ result[o] = "completed"
        /\ active_runs = {}

Status == GetStatus(max_concurrent, active_runs, queue, is_processing)

\* C22: get_status reports the capacity, the number of dispatched unfinished
\* runs and the number of runs waiting in the queue, and a call changes
\* neither the pending queue, the active set, the semaphore, the dispatcher
\* flag nor the status of any run.
C22_GetStatusReadOnly ==
    /\ [](/\ Status.max_concurrent = max_concurrent
          /\ Status.active_runs = Cardinality(Dispatched)
          /\ Status.queued_runs = Cardinality({r \in RunIds : task[r] = "queued"})
          /\ Status.is_processing = is_processing)
    /\ [][get_status => UNCHANGED <<queue, active_runs, semaphore,
                                    is_processing, row, task>>]_vars

\* C22 witness: a status query is answered while one run is active and
\* another waits in the queue.
C22_Witness ==
    /\ ENABLED get_status
    /\ Status.active_runs = 1 /\ Status.queued_runs = 1 /\ Status.is_processing

Stages == {"discovery", "story", "scenarios", "code", "execute"}

\* C23: once a stage has set status failed with an error message, no later
\* stage function is invoked for the run (the machine is not positioned at
\* a stage or at heal), the status stays failed, and the run returns failed
\* with that message.
C23_StageFailureHalts ==
    /\ [](driver = "graph" /\ state.status = "failed"
            => node \notin (Stages \cup {"heal"}))
    /\ [][driver = "graph" /\ state.status = "failed"
            => /\ state'.status = "failed"
               /\ state'.error_message = state.error_message]_vars

\* C24: when the last execution was given a tests directory and failed as
\* infrastructure (the runner raised or returned no usable result), the run does not enter heal or execute
\* again, healing_attempts is not incremented, and the run returns with
\* status failed and an error message.
C24_InfrastructureFailureAborts ==
    /\ []((driver = "graph" /\ state.tests_directory
                /\ executions > 0 /\ ~report_log[executions].ok)
            => /\ node \notin {"heal", "execute"}
               /\ node = "returned"
                    => state.status = "failed" /\ state.error_message # "none")
    /\ [][driver = "graph" /\ executions > 0 /\ ~report_log[executions].ok
            => state'.healing_attempts <= state.healing_attempts]_vars

\* C25: is_healed is true only when an execution that followed a healing
\* attempt reported no failed and at least one passed test; the healer's
\* healed flag likewise; and a step never resets is_healed once it is true.
C25_HealSuccessCriterion ==
    /\ []((driver = "graph" /\ state.is_healed)
            => /\ heals > 0 /\ executions > heals
               /\ report_log[executions].failed = 0
               /\ report_log[executions].passed > 0)
    /\ []((driver = "healer" /\ hl.healed)
            => /\ heals > 0
               /\ hl.final_result.failed = 0 /\ hl.final_result.passed > 0)
    /\ [][(driver = "graph" /\ state.is_healed) => state'.is_healed]_vars

\* Edges of the compiled graph, with run()'s entry and exit around it
Edges ==
    {<<"start", "discovery">>, <<"discovery", "story">>,
     <<"story", "scenarios">>, <<"scenarios", "code">>, <<"code", "execute">>,
     <<"execute", "heal">>, <<"execute", "finish">>, <<"heal", "execute">>,
     <<"finish", "returned">>}

C27_GracefulDegradation ==
    (/\ driver = "graph" /\ node = "execute" /\ executions = 0
     /\ state.error_message # "no_tests")
        => /\ state.scenarios
           /\ state.tests_directory
           /\ gen_dir.test # Absent

\* C28: healing_attempts counts the healing attempts one by one: in a graph
\* run that did not end by exception it equals the number of heal visits,
\* and a healer call whose last attempt had its patch rejected reports as
\* many attempts as it performed.
C28_AttemptsCounted ==
    /\ (driver = "graph" /\ state.error_message # "exception")
          => state.healing_attempts = heals
    /\ (driver = "healer" /\ hl.pc = "returned" /\ last_patch \in RejectedKinds)
          => hl.healing_attempts = heals

\* C29: for a non-empty list select_best_suggestion returns a suggestion of
\* the list whose confidence is maximal, and of those with that confidence
\* the one received first.
C29_SelectBest ==
    best_suggestion # <<>> =>
        \E i \in 1..Len(suggestions) :
            /\ best_suggestion[1] = suggestions[i]
            /\ \A j \in 1..Len(suggestions) :
                  SortKey(suggestions[j]) <= SortKey(suggestions[i])
            /\ \A j \in 1..(i - 1) :
                  SortKey(suggestions[j]) < SortKey(suggestions[i])

\* C29 witness: of three suggestions the second and the third tie for the
\* greatest confidence, and the second was returned.
C29_Witness ==
    /\ Len(suggestions) = 3
    /\ SortKey(suggestions[2]) = SortKey(suggestions[3])
    /\ SortKey(suggestions[1]) < SortKey(suggestions[2])
    /\ best_suggestion = <<suggestions[2]>>

\* The healing attempt of this step re-ran the tests
Reran == driver = "healer" /\ heals' = heals + 1 /\ report_log' # report_log

\* C30: a healing attempt whose re-run is not a full pass ends the loop only
\* when it was the last of the budget, and otherwise goes on to the next
\* attempt; a graph run whose executions all reported failures and whose
\* heal visits all wrote a fix ends after exactly max_heal_attempts visits.
C30_NoEarlyTermination ==
    /\ [][(Reran /\ ~hl'.healed)
            => IF hl.attempt_num < hl.max_attempts
               THEN hl'.pc = "loop" /\ hl'.attempt_num = hl.attempt_num + 1
               ELSE hl'.pc = "returned" /\ heals' = hl.max_attempts]_vars
    /\ []((/\ driver = "graph" /\ node = "returned" /\ state.auto_heal
           /\ state.error_message \notin {"execution", "exception"}
           /\ \A i \in 1..Len(report_log) :
                 report_log[i].ok /\ report_log[i].failed > 0
           /\ \A i \in 1..Len(fix_log) : fix_log[i] > 0)
            => heals = state.max_heal_attempts)

\* C30 witness: a healer call used its whole budget on re-runs that never
\* passed in full.
C30_Witness ==
    /\ driver = "healer" /\ hl.pc = "returned" /\ ~hl.healed
    /\ hl.max_attempts = MaxHeal /\ heals = MaxHeal
    /\ Len(report_log) = MaxHeal

\* C31: a healing attempt changes a file of the generated tests directory
\* only after it has taken a copy of the directory, and applies a patch
\* only when that copy exists.
C31_SnapshotBeforeMutation ==
    [][heals' = heals + 1
         => /\ gen_dir' # gen_dir => backup_dir' = "taken"
            /\ last_patch' \in PatchKinds => backup_dir' = "taken"]_vars

\* C32: a failing write of the state sink changes neither the state a stage
\* returns nor the course of the run: the state after an execution is the
\* one execution_node returns for the same runner result under a working
\* sink, and discovery is always followed by story.
C32_SinkFireAndForget ==
    /\ [][(driver = "graph" /\ node = "execute" /\ executions' = executions + 1)
            => LET rep == report_log'[executions']
               IN  \E r \in (IF rep.ok THEN {FALSE} ELSE BOOLEAN) :
                      state' = execution_node(state, r, rep, "ok")]_vars
    /\ [][(driver = "graph" /\ node = "discovery" /\ node' # node)
            => node' = "story"]_vars

\* The identity and input fields of a run's context
Inputs(st) ==
    <<st.run_id, st.url, st.execution_mode, st.preset, st.auto_heal,
      st.max_heal_attempts>>

\* C33: a step of a stage or of the heal node returns a context with the
\* run_id, url, execution_mode, preset, auto_heal and max_heal_attempts it
\* received.
C33_InputsUnchanged ==
    [][(driver = "graph" /\ node \in Stages \cup {"heal"})
          => Inputs(state') = Inputs(state)]_vars

\* C33 witness: a run that went through a stage failure, an execution and
\* a heal visit has returned with the inputs it started with.
C33_Witness ==
    /\ driver = "graph" /\ node = "returned" /\ heals >= 1
    /\ state.error_message \notin {"none", "exception"}
    /\ state.max_heal_attempts > 0
    /\ Inputs(state) = Inputs(initial_state)

C35_DispatchedAtMostOnce ==
    /\ \A i, j \in 1..Len(start_log) : start_log[i] = start_log[j] => i = j
    /\ \A i, j \in 1..Len(queue) : queue[i] = queue[j] => i = j
    /\ \A r \in RunIds :
          /\ ~(InQueue(r) /\ r \in active_runs)
          /\ ~(InQueue(r) /\ r \in Range(start_log))
          /\ r \in active_runs => r \in Range(start_log)

\* C35 witness: two runs were popped, both are active, and a third entry or
\* none is left in the queue without being active.
C35_Witness ==
    /\ Len(start_log) >= 2 /\ Cardinality(active_runs) >= 2
    /\ Len(enq_log) = Len(start_log) + Len(queue)

\* C36: run() returns a context whose status is completed or failed with
\* completed_at set; a failed context carries an error message and the
\* healing_attempts and is_healed of the initial state; and the returned
\* status is failed exactly when the workflow invocation raised, that is,
\* never after the workflow returned and run() reached its final write.
C36_RunReturn ==
    /\ []((driver = "graph" /\ node = "returned")
            => /\ state.status \in {"completed", "failed"}
               /\ state.completed_at
               /\ state.status = "failed"
                    => /\ state.error_message # "none"
                       /\ state.healing_attempts = initial_state.healing_attempts
                       /\ state.is_healed = initial_state.is_healed)
    /\ [][(driver = "graph" /\ node # "returned" /\ node' = "returned")
            => (state'.status = "failed" <=> node # "finish")]_vars

\* C37: when the workflow reaches its end, the execute stage was visited
\* healing_attempts + 1 times, which is at most max_heal_attempts + 1; every
\* visit to the heal node adds exactly 1 to healing_attempts on each of its
\* return paths; and no step of the workflow lowers healing_attempts.
C37_ExecuteHealCycle ==
    /\ []((driver = "graph" /\ node = "finish")
            => /\ executions = state.healing_attempts + 1
               /\ executions = heals + 1
               /\ executions <= state.max_heal_attempts + 1)
    /\ [][(driver = "graph" /\ node = "heal")
            => state'.healing_attempts = state.healing_attempts + 1]_vars
    /\ [][(driver = "graph" /\ node \in Stages \cup {"heal"}
             /\ node' \in Stages \cup {"heal", "finish"})
            => state'.healing_attempts >= state.healing_attempts]_vars

\* C37 witness: the workflow ended after three executions and two heal
\* visits, the first of which wrote no fix.
C37_Witness ==
    /\ driver = "graph" /\ node = "finish"
    /\ heals = 2 /\ executions = 3 /\ state.healing_attempts = 2
    /\ fix_log[1] = 0

\* The re-runs auto_heal_and_rerun recorded, in order
Recorded == report_log

\* C38: a returned auto_heal_and_rerun with healed = true has as final_result
\* the last re-run, which has no failure and at least one pass, and reports
\* between 1 and max_attempts healing attempts; with healed = false it
\* reports as healing_attempts the number of recorded re-runs, at most
\* max_attempts, and as final_result the last recorded re-run, or none when
\* no attempt reached a re-run.
C38_HealerResult ==
    (driver = "healer" /\ hl.pc = "returned")
      => LET n == Len(Recorded)
         IN  IF hl.healed
             THEN /\ n > 0 /\ hl.has_final
                  /\ hl.final_result = Recorded[n]
                  /\ hl.final_result.failed = 0 /\ hl.final_result.passed > 0
                  /\ 1 <= hl.healing_attempts
                  /\ hl.healing_attempts <= hl.max_attempts
             ELSE /\ hl.healing_attempts = n
                  /\ hl.healing_attempts <= hl.max_attempts
                  /\ hl.has_final = (n > 0)
                  /\ n > 0 => hl.final_result = Recorded[n]

\* C38 witness: a call returned healed = false after two passes of which one
\* reached a re-run.
C38_Witness ==
    /\ driver = "healer" /\ hl.pc = "returned" /\ ~hl.healed
    /\ heals = 2 /\ Len(Recorded) = 1 /\ hl.healing_attempts = 1
    /\ hl.has_final

\* The first execution of run_pipeline_sync had no failure and a pass
FirstPassed ==
    /\ executions >= 1
    /\ report_log[1].failed = 0 /\ report_log[1].passed > 0

\* C39: when run_pipeline_sync returns, the run's status is completed or
\* failed; it is completed exactly when no exception occurred and either the
\* first execution had no failure and at least one pass or the healing loop
\* reported healed; and the healing loop was called only after a first
\* execution with failures and with autoHeal on.
C39_SyncTerminalStatus ==
    /\ (driver = "sync" /\ node = "returned")
         => /\ run_row \in {"completed", "failed"}
            /\ run_row = "completed"
                 <=> /\ state.error_message # "exception"
                     /\ FirstPassed \/ hl.healed
    /\ (driver = "sync" /\ hl.pc # "uncalled")
         => /\ executions >= 1 /\ report_log[1].failed > 0
            /\ state.auto_heal

====
